---- MODULE Spec2Model ----
(***************************************************************************)
(* Model of pythainlp/util/thaiwordcheck.py: the "authentic Thai word"     *)
(* classifier is_authentic_thai and its deprecated alias thaicheck.        *)
(*                                                                         *)
(* A character is its Unicode code point, a word is a sequence of code     *)
(* points, so that the character class [ก-ฬฮ] is a range test on numbers   *)
(* exactly as the regular expression engine evaluates it.                  *)
(***************************************************************************)
EXTENDS Integers, Sequences, FiniteSets

\* ---------------------------------------------------------------- bounds
MaxLen == 3          \* longest word drawn freely over Alphabet
MaxSuffix == 1       \* longest continuation appended to a prefix-set entry
MaxCalls == 2        \* calls of thaicheck that are followed
MaxPairLen == 3      \* longest word drawn over PairAlphabet

\* ------------------------------------------------- characters (code points)
KO_KAI == 3585       \* ก  first character of the pattern range, a true final
RO_RUA == 3619       \* ร  inside the pattern, neither final nor disallowed
PO_PLA == 3611       \* ป  inside the pattern, neither final nor disallowed
THO_THONG == 3608    \* ธ  disallowed letter, also an exception word
LO_CHULA == 3628     \* ฬ  last character of the pattern range, disallowed
O_ANG == 3629        \* อ  lies between ฬ and ฮ, outside the pattern
HO_NOKHUK == 3630    \* ฮ  the second alternative of the pattern
SARA_A == 3632       \* ะ  a vowel
LATIN_A == 65        \* A  a character of another script

\* ------------------------------------------------------------ static tables
_THANTHAKHAT_CHAR == 3660

_TH_NON_THAI_CHARS ==
    {3590, 3603, 3596, 3598, 3599, 3600, 3601, 3602, 3608, 3624, 3625, 3628}

_TH_TRUE_THAI_WORD ==
    { <<3590, 3656, 3634>>,                                \* ฆ่า
      <<3648, 3590, 3637, 3656, 3618, 3609>>,              \* เฆี่ยน
      <<3624, 3638, 3585>>,                                \* ศึก
      <<3624, 3629, 3585>>,                                \* ศอก
      <<3648, 3624, 3636, 3585>>,                          \* เศิก
      <<3648, 3624, 3619, 3657, 3634>>,                    \* เศร้า
      <<3608>>,                                            \* ธ
      <<3603>>,                                            \* ณ
      <<3631, 3614, 3603, 3631>>,                          \* ฯพณฯ
      <<3651, 3627, 3597, 3656>>,                          \* ใหญ่
      <<3627, 3597, 3657, 3634>>,                          \* หญ้า
      <<3588, 3623, 3634, 3618>>,                          \* ควาย
      <<3588, 3623, 3634, 3617>>,                          \* ความ
      <<3585, 3619, 3636, 3656, 3591, 3648, 3585, 3619, 3591>>,  \* กริ่งเกรง
      <<3612, 3621, 3636>> }                               \* ผลิ

_TH_TRUE_FINALS == {3585, 3604, 3610, 3609, 3591, 3617, 3618, 3623}

_TH_PREFIX_DIPHTHONG ==
    { <<3585, 3632>>,            \* กะ
      <<3585, 3619, 3632>>,      \* กระ
      <<3611, 3632>>,            \* ปะ
      <<3611, 3619, 3632>> }     \* ประ

\* the class written [ก-ฮ]: the range then also takes in อ (U+0E2D)
pattern_whole_range(ch) == 3585 <= ch /\ ch <= 3630

\* [ก-ฬฮ]: the range U+0E01..U+0E2C or the single character U+0E2E
_TH_CONSONANTS_PATTERN(ch) == (3585 <= ch /\ ch <= 3628) \/ ch = 3630

\* ------------------------------------------------------------ the classifier
\* re.findall(_TH_CONSONANTS_PATTERN, word): the matching characters in order
findall(word) == SelectSeq(word, _TH_CONSONANTS_PATTERN)

\* word.endswith(_THANTHAKHAT_CHAR) in place of the membership test
ends_in_thanthakhat(word) == Len(word) > 0 /\ word[Len(word)] = _THANTHAKHAT_CHAR

\* _THANTHAKHAT_CHAR in word
contains_thanthakhat(word) == \E i \in 1..Len(word) : word[i] = _THANTHAKHAT_CHAR

\* only the first character is tested, the loop is left after one round
first_char_non_thai(word) == Len(word) > 0 /\ word[1] \in _TH_NON_THAI_CHARS

\* the loop starts at the second character
tail_contains_non_thai_char(word) == \E i \in 2..Len(word) : word[i] \in _TH_NON_THAI_CHARS

\* for ch in word: if ch in _TH_NON_THAI_CHARS
contains_non_thai_char(word) == \E i \in 1..Len(word) : word[i] \in _TH_NON_THAI_CHARS

\* the single-consonant alternative is missing
ends_with_true_final_only(chs) == chs[Len(chs)] \in _TH_TRUE_FINALS

\* the first consonant is tested in place of the last
starts_with_true_final(chs) == (Len(chs) = 1) \/ (chs[1] \in _TH_TRUE_FINALS)

\* (len(chs) == 1) or (chs[len(chs) - 1] in _TH_TRUE_FINALS)
ends_with_true_final(chs) == (Len(chs) = 1) \/ (chs[Len(chs)] \in _TH_TRUE_FINALS)

\* word.startswith(p) for some entry p, the prefix test the comment asks for
starts_with_prefix_diphthong(word) ==
    \E p \in _TH_PREFIX_DIPHTHONG :
        Len(word) >= Len(p) /\ SubSeq(word, 1, Len(p)) = p

\* word in _TH_PREFIX_DIPHTHONG
is_prefix_diphthong(word) == word \in _TH_PREFIX_DIPHTHONG

\* the final test looks at the last character of the word, not of chs
heuristic_last_char(word) ==
    IF contains_thanthakhat(word) THEN FALSE
    ELSE IF contains_non_thai_char(word) THEN FALSE
    ELSE LET chs == findall(word) IN
         IF chs = <<>> THEN FALSE
         ELSE IF (Len(chs) = 1) \/ (word[Len(word)] \in _TH_TRUE_FINALS) THEN TRUE
         ELSE IF is_prefix_diphthong(word) THEN TRUE
         ELSE FALSE

\* the rules that follow the exception test
heuristic(word) ==
    IF contains_thanthakhat(word) THEN FALSE
    ELSE IF contains_non_thai_char(word) THEN FALSE
    ELSE LET chs == findall(word) IN
         IF chs = <<>> THEN FALSE
         ELSE IF ends_with_true_final(chs) THEN TRUE
         ELSE IF is_prefix_diphthong(word) THEN TRUE
         ELSE FALSE

\* the exception test comes after the rejecting rules
is_authentic_thai_late_exception(word) ==
    IF contains_thanthakhat(word) THEN FALSE
    ELSE IF contains_non_thai_char(word) THEN FALSE
    ELSE IF word \in _TH_TRUE_THAI_WORD THEN TRUE
    ELSE heuristic(word)

is_authentic_thai(word) ==
    IF word \in _TH_TRUE_THAI_WORD THEN TRUE
    ELSE heuristic(word)

\* -------------------------------------------------------------------- inputs
SeqsUpTo(S, n) == UNION { [1..k -> S] : k \in 0..n }

Alphabet == {KO_KAI, RO_RUA, PO_PLA, THO_THONG, LO_CHULA, O_ANG, HO_NOKHUK,
             SARA_A, _THANTHAKHAT_CHAR, LATIN_A}

Words ==
    SeqsUpTo(Alphabet, MaxLen)
      \cup _TH_TRUE_THAI_WORD
      \cup { p \o s : p \in _TH_PREFIX_DIPHTHONG, s \in SeqsUpTo(Alphabet, MaxSuffix) }

PairAlphabet == {KO_KAI, RO_RUA, THO_THONG, O_ANG, HO_NOKHUK, SARA_A, _THANTHAKHAT_CHAR}

PairWords ==
    SeqsUpTo(PairAlphabet, MaxPairLen) \cup _TH_TRUE_THAI_WORD \cup _TH_PREFIX_DIPHTHONG

\* --------------------------------------------------------------------- state
VARIABLES
    pc,        \* "idle", or "warned": thaicheck has warned and not yet delegated
    entry,     \* the entry point of the latest call, "none" before the first
    word,      \* the argument the caller passes
    result,    \* the value the latest completed call returned
    calls,     \* calls of thaicheck begun
    notices    \* deprecation warnings emitted

vars == <<pc, entry, word, result, calls, notices>>

Init ==
    /\ pc = "idle"
    /\ entry = "none"
    /\ word \in Words
    /\ result = FALSE
    /\ calls = 0
    /\ notices = 0

\* a caller invokes is_authentic_thai(word) and receives its value
call_is_authentic_thai ==
    /\ pc = "idle"
    /\ result' = is_authentic_thai(word)
    /\ entry' = "is_authentic_thai"
    /\ UNCHANGED <<pc, word, calls, notices>>

\* thaicheck without the call of warnings.warn
thaicheck_no_warn ==
    /\ pc = "idle"
    /\ calls < MaxCalls
    /\ entry' = "thaicheck"
    /\ calls' = calls + 1
    /\ pc' = "warned"
    /\ UNCHANGED <<word, result, notices>>

\* thaicheck(word), first statement: warnings.warn(..., DeprecationWarning)
thaicheck_warn ==
    /\ pc = "idle"
    /\ calls < MaxCalls
    /\ entry' = "thaicheck"
    /\ calls' = calls + 1
    /\ notices' = notices + 1
    /\ pc' = "warned"
    /\ UNCHANGED <<word, result>>

\* thaicheck(word), second statement: return is_authentic_thai(word)
thaicheck_return ==
    /\ pc = "warned"
    /\ result' = is_authentic_thai(word)
    /\ pc' = "idle"
    /\ UNCHANGED <<entry, word, calls, notices>>

Next ==
    \/ call_is_authentic_thai
    \/ thaicheck_warn
    \/ thaicheck_return

Spec == Init /\ [][Next]_vars

\* the same program, called with the words of PairWords
InitPair ==
    /\ pc = "idle"
    /\ entry = "none"
    /\ word \in PairWords
    /\ result = FALSE
    /\ calls = 0
    /\ notices = 0

NextPair == call_is_authentic_thai

SpecPair == InitPair /\ [][NextPair]_vars

\* ------------------------------------------------ vocabulary of the properties
\* the latest call has returned: result is the value returned for word
Returned == pc = "idle" /\ entry # "none"

InExceptionSet(w) == w \in _TH_TRUE_THAI_WORD
InPrefixSet(w) == w \in _TH_PREFIX_DIPHTHONG
HasCancellationMark(w) == \E i \in 1..Len(w) : w[i] = 3660
HasDisallowedLetter(w) == \E i \in 1..Len(w) : w[i] \in _TH_NON_THAI_CHARS

\* the characters U+0E01..U+0E2C and U+0E2E, as the spec's consonant pattern
IsPatternChar(c) == c \in (3585..3628) \cup {3630}

RECURSIVE ConsonantSubseq(_)
ConsonantSubseq(w) ==
    IF w = <<>> THEN <<>>
    ELSE IF IsPatternChar(Head(w)) THEN <<Head(w)>> \o ConsonantSubseq(Tail(w))
    ELSE ConsonantSubseq(Tail(w))

LastConsonantIsValidFinal(w) ==
    LET cs == ConsonantSubseq(w) IN Len(cs) >= 1 /\ cs[Len(cs)] \in _TH_TRUE_FINALS

\* w is longer than some prefix-set entry and starts with it
ExtendsPrefix(w) ==
    \E p \in _TH_PREFIX_DIPHTHONG : Len(w) > Len(p) /\ SubSeq(w, 1, Len(p)) = p

\* steps 1-6 and 8 of the algorithm, step 7 (the prefix rule) removed
WithoutPrefixRule(w) ==
    IF InExceptionSet(w) THEN TRUE
    ELSE IF HasCancellationMark(w) \/ HasDisallowedLetter(w) THEN FALSE
    ELSE Len(ConsonantSubseq(w)) = 1 \/ LastConsonantIsValidFinal(w)

\* the exception words whose last consonant is a valid final: ควาย ความ กริ่งเกรง
ExceptionsPassingAnyway ==
    { <<3588, 3623, 3634, 3618>>,
      <<3588, 3623, 3634, 3617>>,
      <<3585, 3619, 3636, 3656, 3591, 3648, 3585, 3619, 3591>> }

\* ---------------------------------------------------------------- properties

\* C1: a word of the exception set is returned true, whatever else it contains
\* (a disallowed letter, the cancellation mark).
C1_ExceptionPrecedence ==
    (Returned /\ InExceptionSet(word)) => result = TRUE

C1_Witness ==
    Returned /\ InExceptionSet(word) /\ HasDisallowedLetter(word) /\ result = TRUE

\* C2: a word outside the exception set that contains the cancellation mark
\* at any position is returned false, whatever its consonants are.
C2_CancellationMark ==
    (Returned /\ ~InExceptionSet(word) /\ HasCancellationMark(word)) => result = FALSE

C2_Witness ==
    /\ Returned /\ ~InExceptionSet(word) /\ result = FALSE
    /\ Len(word) >= 2 /\ word[1] = 3660
    /\ ~HasDisallowedLetter(word) /\ LastConsonantIsValidFinal(word)

\* C3: a word outside the exception set and without the cancellation mark that
\* contains a disallowed letter is returned false, even when its last consonant
\* is a valid final.
C3_DisallowedLetter ==
    (Returned /\ ~InExceptionSet(word) /\ ~HasCancellationMark(word)
       /\ HasDisallowedLetter(word)) => result = FALSE

C3_Witness ==
    /\ Returned /\ ~InExceptionSet(word) /\ ~HasCancellationMark(word)
    /\ HasDisallowedLetter(word) /\ LastConsonantIsValidFinal(word)
    /\ result = FALSE

\* C4: a word not caught by the exception, cancellation-mark and disallowed-letter
\* rules is returned true when its consonant subsequence has exactly one element
\* or ends in a valid final consonant.
C4_ValidFinalOrSingle ==
    (Returned /\ ~InExceptionSet(word) /\ ~HasCancellationMark(word)
       /\ ~HasDisallowedLetter(word)
       /\ (Len(ConsonantSubseq(word)) = 1 \/ LastConsonantIsValidFinal(word)))
    => result = TRUE

C4_Witness ==
    /\ Returned /\ ~InExceptionSet(word) /\ ~HasCancellationMark(word)
    /\ ~HasDisallowedLetter(word)
    /\ Len(ConsonantSubseq(word)) >= 2 /\ LastConsonantIsValidFinal(word)
    /\ Len(word) > Len(ConsonantSubseq(word))
    /\ result = TRUE

\* C5: a word that is neither an exception word nor a prefix-set entry, with two
\* or more consonants of which the last is not a valid final, is returned false.
C5_InvalidFinalRejected ==
    (Returned /\ ~InExceptionSet(word) /\ ~InPrefixSet(word)
       /\ Len(ConsonantSubseq(word)) >= 2 /\ ~LastConsonantIsValidFinal(word))
    => result = FALSE

C5_Witness ==
    /\ Returned /\ ~InExceptionSet(word) /\ ~InPrefixSet(word)
    /\ ~HasCancellationMark(word) /\ ~HasDisallowedLetter(word)
    /\ Len(ConsonantSubseq(word)) >= 2 /\ ~LastConsonantIsValidFinal(word)
    /\ ConsonantSubseq(word)[1] \in _TH_TRUE_FINALS
    /\ result = FALSE

\* C6: a word with no character matching the consonant pattern (the empty word,
\* a word of another script) is returned false; neither the exception rule nor
\* the prefix rule rescues it.
C6_NoConsonant ==
    (Returned /\ ConsonantSubseq(word) = <<>>) => result = FALSE

C6_Witness ==
    /\ Returned /\ ConsonantSubseq(word) = <<>> /\ result = FALSE
    /\ ~HasCancellationMark(word)
    /\ \E i \in 1..Len(word) : word[i] = O_ANG

C8_EveryExceptionFailsHeuristic ==
    (Returned /\ InExceptionSet(word)) => heuristic(word) = FALSE

\* C8 amended: the rules that follow the exception test return false for every
\* word of the exception set but ควาย, ความ and กริ่งเกรง, and true for these three.
C8_ExceptionsButThreeFailHeuristic ==
    (Returned /\ InExceptionSet(word))
    => (heuristic(word) = (word \in ExceptionsPassingAnyway))

C8_Witness ==
    /\ Returned /\ InExceptionSet(word) /\ ~HasDisallowedLetter(word)
    /\ word \notin ExceptionsPassingAnyway
    /\ result = TRUE /\ heuristic(word) = FALSE

\* C9: the prefix rule decides only a word that is exactly a prefix-set entry; a
\* longer word that starts with an entry gets the result of the algorithm
\* without the prefix rule.
C9_PrefixWholeWordOnly ==
    /\ (Returned /\ ExtendsPrefix(word)) => result = WithoutPrefixRule(word)
    /\ (Returned /\ result # WithoutPrefixRule(word)) => InPrefixSet(word)

C9_Witness ==
    /\ Returned /\ ExtendsPrefix(word) /\ ~InPrefixSet(word)
    /\ ~HasCancellationMark(word) /\ ~HasDisallowedLetter(word)
    /\ SubSeq(word, 1, 3) = <<3585, 3619, 3632>>
    /\ result = FALSE

\* C10: of two words that are neither exception words nor prefix-set entries and
\* hold no cancellation mark, equal consonant subsequences give equal results.
Comparable(w) ==
    ~InExceptionSet(w) /\ ~InPrefixSet(w) /\ ~HasCancellationMark(w)

C10_ConsonantSubseqDecides ==
    (Returned /\ Comparable(word))
    => \A w2 \in PairWords :
         (Comparable(w2) /\ ConsonantSubseq(w2) = ConsonantSubseq(word))
         => is_authentic_thai(w2) = result

C10_Witness ==
    /\ Returned /\ Comparable(word) /\ result = TRUE
    /\ Len(ConsonantSubseq(word)) >= 2
    /\ \E i \in 1..Len(word) : word[i] = O_ANG
    /\ ConsonantSubseq(word) \in PairWords
    /\ Comparable(ConsonantSubseq(word))
    /\ is_authentic_thai(ConsonantSubseq(word)) = TRUE

====
